---- MODULE Spec2Model ----
(***************************************************************************)
(* A model of the robot emulator: the GoPiGo motor model                   *)
(* (src/src/bots/gopigo/gopigo.py), the two-wheel kinematics and the       *)
(* Playground scheduler (src/src/emu.py), and the user-program thread that *)
(* drives them through the GoPiGo3 facade                                  *)
(* (src/src/bots/gopigo/libs/gopigo3.py).                                  *)
(*                                                                         *)
(* Numbers.  The program computes in floating point; the model computes    *)
(* the same expressions exactly, in integers, in these units:              *)
(*   time      1/TimeScale second  (TimeScale = 1200: 1/fps and 1/ips are  *)
(*             both whole numbers of units: 3 and 40)                      *)
(*   speed     1/SpeedScale degree per second (SpeedScale = 127, the       *)
(*             divisor of set_power, so power/127*500 is a whole number)   *)
(*   rotation  1/DegUnit degree, DegUnit = SpeedScale * TimeScale, so that *)
(*             velocity * delta_time needs no rounding                     *)
(* None is the empty sequence <<>>, a value v that may be None is <<v>>.   *)
(***************************************************************************)
EXTENDS Integers, Sequences, FiniteSets, TLC

VARIABLES
    \* the robots
    motors,             \* bot -> port -> GoPiGoMotor fields (left_motor, right_motor)
    pose,               \* bot -> [x, y, heading] (Bot.x, Bot.y, Bot.heading)
    \* Playground
    bots,               \* Playground.bots, in registration order
    last_update,        \* Playground.last_update (None before the first update)
    last_image_update,  \* Playground.last_image_update
    end,                \* Playground.end, the stop flag
    schedules,          \* Playground.schedules, the deferred actions
    \* the scheduler thread (Playground.mainloop and the update it is in)
    now,                \* the wall clock, time.perf_counter()
    pc,                 \* where mainloop is
    start,              \* mainloop's local start
    current_time,       \* update's local current_time
    delta_time,         \* update's local delta_time
    bi,                 \* update, "for bot in self.bots": bots already updated
    idx,                \* update, "for schedule in self.schedules": entries already run
    outcome,            \* mainloop: "running", "returned" or "raised"
    \* history (not program state)
    hist,
    \* one motor driven sequentially
    mphase,             \* "cmd" (commands and updates) or "hold" (updates only)
    mops,               \* operations issued so far
    mret,               \* what the last operation returned / computed
    lastCall,           \* the last direct call of the sensor or the kinematics: arguments, result
    \* one robot's update, step by step, against the user program's thread
    rpc,                \* where GoPiGoBot.update is: [at, port]
    rloc,               \* its locals: delta_rotate of each motor, the encoder read, k, s, heading
    user,               \* the user thread: the call in progress, its argument and locals
    rhist               \* history (not program state)

robotVars == <<motors, pose>>
pgVars == <<bots, last_update, last_image_update, end, schedules>>
threadVars == <<now, pc, start, current_time, delta_time, bi, idx, outcome>>
schedVars == <<pgVars, threadVars, hist>>
seqVars == <<mphase, mops, mret, lastCall>>
raceVars == <<rpc, rloc, user, rhist>>
vars == <<robotVars, schedVars, seqVars, raceVars>>

----------------------------------------------------------------------------
(* Program constants *)

fps == 400
ips == 30
accel == 5400
decel == 5800
Precision == 2
SpeedScale == 127
MaxPowerDps == 500
MotorFloat == -128

TimeScale == (fps * ips) \div 10
DegUnit == SpeedScale * TimeScale
interval == TimeScale \div fps
image_interval == TimeScale \div ips

----------------------------------------------------------------------------
(* Arithmetic helpers *)

Abs(n) == IF n < 0 THEN -n ELSE n
Min(a, b) == IF a < b THEN a ELSE b
Max(a, b) == IF a > b THEN a ELSE b
None == <<>>
Some(v) == <<v>>
Val(o) == o[1]
\* Python's int(): truncation toward zero of n / d, d > 0
TruncDiv(n, d) == IF n >= 0 THEN n \div d ELSE -((-n) \div d)

Dps(d) == d * SpeedScale            \* d degrees per second, in speed units
Deg(d) == d * DegUnit               \* d degrees, in rotation units

----------------------------------------------------------------------------
(* GoPiGoMotor *)

Ports == {"left", "right"}

MotorInit ==
    [encoder |-> 0, limit |-> 0, speed |-> 0, target |-> None, velocity |-> 0]

\* _target_reached(precision = 2): abs(self.encoder - self.target) <= precision
\* _target_reached, line 15, were the precision 0
TargetReachedExactly(m) == m.encoder = Val(m.target)

TargetReached(m) == Abs(m.encoder - Val(m.target)) <= Deg(Precision)

\* update, lines 27-32, were a limit of 0 to mean no limit in speed mode
DesiredSpeedZeroUnlimited(m) ==
    IF m.target = None
    THEN IF m.limit = 0 THEN m.speed ELSE Min(Max(m.speed, -m.limit), m.limit)
    ELSE IF ~TargetReached(m)
         THEN m.limit * (IF Val(m.target) > m.encoder THEN 1 ELSE -1)
         ELSE 0

\* update, lines 27-32, without the clamp of line 28
DesiredSpeedUnclamped(m) ==
    IF m.target = None
    THEN m.speed
    ELSE IF ~TargetReached(m)
         THEN m.limit * (IF Val(m.target) > m.encoder THEN 1 ELSE -1)
         ELSE 0

\* update, lines 27-32: the desired speed of this step
DesiredSpeed(m) ==
    IF m.target = None
    THEN Min(Max(m.speed, -m.limit), m.limit)
    ELSE IF ~TargetReached(m)
         THEN m.limit * (IF Val(m.target) > m.encoder THEN 1 ELSE -1)
         ELSE 0

\* _update_velocity, lines 18-22: the ramped velocity, in 1/TimeScale speed units
\* (a * delta_time is a whole number only in that unit)
RampedVelocity(velocity, desired_speed, dt) ==
    LET a == IF Abs(velocity) < Abs(desired_speed) THEN accel ELSE decel
        v == velocity * TimeScale
        d == desired_speed * TimeScale
        step == a * SpeedScale * dt
    IN  IF v < d THEN Min(v + step, d)
        ELSE IF v > d THEN Max(v - step, d)
        ELSE v

\* _update_velocity without its line 23: the ramped value, in speed units
UpdateVelocityRamped(velocity, desired_speed, dt) ==
    TruncDiv(RampedVelocity(velocity, desired_speed, dt), TimeScale)

\* _update_velocity: line 23 overwrites the ramped value with desired_speed
UpdateVelocity(velocity, desired_speed, dt) ==
    LET ramped == RampedVelocity(velocity, desired_speed, dt) \* lines 18-22
    IN  desired_speed                                                 \* line 23

\* update, line 34: delta_rotate = self.velocity * delta_time
DeltaRotate(velocity, dt) == velocity * dt

\* update(delta_time) as one call: the motor after it
MotorUpdate(m, dt) ==
    LET v == UpdateVelocity(m.velocity, DesiredSpeed(m), dt)
    IN  [m EXCEPT !.velocity = v, !.encoder = m.encoder + DeltaRotate(v, dt)]

\* update(delta_time): the value returned
MotorUpdateDelta(m, dt) ==
    DeltaRotate(UpdateVelocity(m.velocity, DesiredSpeed(m), dt), dt)

\* set_position(degrees), line 39: self.target = degrees
SetPositionTarget(m, degrees) == [m EXCEPT !.target = Some(Deg(degrees))]

\* set_position(degrees) without its line 40: the speed stays
SetPositionKeepsSpeed(m) == m

\* set_position(degrees), line 40: self.speed = 0
SetPositionSpeed(m) == [m EXCEPT !.speed = 0]

\* set_position(degrees) as one call
SetPosition(m, degrees) == SetPositionSpeed(SetPositionTarget(m, degrees))

\* get_encoder(): int(self.encoder + 0.5), in whole degrees
GetEncoder(m) == TruncDiv(2 * m.encoder + DegUnit, 2 * DegUnit)

\* set_limits(dps) without its line 46: the sign stays
SetLimitsRaw(m, dps) == [m EXCEPT !.limit = dps]

\* set_limits(dps), dps in speed units
SetLimits(m, dps) == [m EXCEPT !.limit = IF dps < 0 THEN -dps ELSE dps]

\* set_dps(dps) without its line 56: the target stays
SetDpsKeepsTarget(m) == m

\* set_dps(dps), line 56: self.target = None
SetDpsTarget(m) == [m EXCEPT !.target = None]

\* set_dps(dps), line 57: self.speed = dps, dps in speed units
SetDpsSpeed(m, dps) == [m EXCEPT !.speed = dps]

\* set_dps(dps) as one call
SetDps(m, dps) == SetDpsSpeed(SetDpsTarget(m), dps)

\* set_power(power) without its lines 50-51: -128 is a power like any other
SetPowerLinear(m, power) == SetDps(m, power * MaxPowerDps)

\* set_power(power): power / 127 * 500 degrees per second is power * 500 speed units
SetPower(m, power) ==
    IF power = MotorFloat THEN SetDps(m, 0) ELSE SetDps(m, power * MaxPowerDps)

\* offset_encoder(degrees)
OffsetEncoder(m, degrees) == [m EXCEPT !.encoder = m.encoder - Deg(degrees)]

----------------------------------------------------------------------------
(* TwoWheelsBot: the kinematics.  Angles are in 1/AngScale radian,         *)
(* positions in micrometres; sin and cos are Bhaskara's rational           *)
(* approximation, scaled by AngScale.                                      *)

AngScale == 10000
Pi4 == 31416                        \* math.pi, in angle units
WheelDiameter10 == 665              \* wheel_diameter = 66.5 mm, in tenths of a mm
wheels_distance == 117              \* mm

\* a rotation in hundredths of a degree
CentiDeg(d) == TruncDiv(d, DegUnit \div 100)

\* sin of x, 0 <= x <= pi: 16 x (pi - x) / (5 pi^2 - 4 x (pi - x))
SinHalfTurn(x) ==
    LET p == x * (Pi4 - x)
    IN  (4 * p) \div ((((Pi4 * Pi4) \div 4) * 5 - p) \div AngScale)

Sin(h) ==
    LET x == h % (2 * Pi4)
    IN  IF x <= Pi4 THEN SinHalfTurn(x) ELSE -SinHalfTurn(x - Pi4)

Cos(h) == Sin(h + Pi4 \div 2)

\* add_wheel_delta, line 233, with the sum of the deltas for their difference
WheelKOfSum(left_delta, right_delta) ==
    TruncDiv(TruncDiv(CentiDeg(right_delta + left_delta) * Pi4, 360) * WheelDiameter10,
             wheels_distance * 1000)

\* add_wheel_delta, line 233: k, the change of heading
WheelK(left_delta, right_delta) ==
    TruncDiv(TruncDiv(CentiDeg(right_delta - left_delta) * Pi4, 360) * WheelDiameter10,
             wheels_distance * 1000)

\* add_wheel_delta, line 234, with the difference of the deltas for their sum
WheelSOfDifference(left_delta, right_delta) ==
    TruncDiv(TruncDiv(CentiDeg(right_delta - left_delta) * Pi4, 360) * WheelDiameter10,
             2 * AngScale)

\* add_wheel_delta, line 234: s, the mean distance travelled, in micrometres
WheelS(left_delta, right_delta) ==
    TruncDiv(TruncDiv(CentiDeg(right_delta + left_delta) * Pi4, 360) * WheelDiameter10,
             2 * AngScale)

\* add_wheel_delta, lines 238-243: the new self.x and self.y
NewX(x, heading, k, s) ==
    IF k # 0
    THEN x + TruncDiv((Sin(k + heading) - Sin(heading)) * s, k)
    ELSE x + TruncDiv(Cos(heading) * s, AngScale)

NewY(y, heading, k, s) ==
    IF k # 0
    THEN y + TruncDiv((-Cos(k + heading) + Cos(heading)) * s, k)
    ELSE y + TruncDiv(Sin(heading) * s, AngScale)

PoseInit == [x |-> 0, y |-> 0, heading |-> 0]

\* add_wheel_delta(left_delta, right_delta) as one call: the pose after it
AddWheelDelta(p, left_delta, right_delta) ==
    LET k == WheelK(left_delta, right_delta)
        s == WheelS(left_delta, right_delta)
    IN  [x |-> NewX(p.x, p.heading, k, s),
         y |-> NewY(p.y, p.heading, k, s),
         heading |-> p.heading + k]

\* add_wheel_delta cut short by turtle.setposition raising (line 249): x and y
\* are written, heading (line 250) is not
AddWheelDeltaRaised(p, left_delta, right_delta) ==
    [AddWheelDelta(p, left_delta, right_delta) EXCEPT !.heading = p.heading]

\* GoPiGoBot.update(delta_time): both motors, left first
BotMotorsAfter(ms, dt) == [port \in Ports |-> MotorUpdate(ms[port], dt)]

\* GoPiGoBot.update(delta_time), were the wheel deltas passed the other way round
BotPoseAfterMirrored(ms, p, dt) ==
    AddWheelDelta(p, MotorUpdateDelta(ms["right"], dt), MotorUpdateDelta(ms["left"], dt))

\* GoPiGoBot.update(delta_time): the pose
BotPoseAfter(ms, p, dt) ==
    AddWheelDelta(p, MotorUpdateDelta(ms["left"], dt), MotorUpdateDelta(ms["right"], dt))

NumBots == 2
BotIds == 1 .. NumBots

RobotsInit ==
    /\ motors = [b \in BotIds |-> [port \in Ports |-> MotorInit]]
    /\ pose = [b \in BotIds |-> PoseInit]

\* no robot update in progress, no call of the user program in progress
RaceHistInit ==
    [ticks |-> 0,                               \* robot updates completed
     ops |-> 0,                                 \* calls the user program has begun
     committed |-> {PoseInit},                  \* the pose after each completed update
     snap |-> None,                             \* what the last completed read_mm read
     ideal |-> [port \in Ports |-> 0],          \* the encoder, were no write ever lost
     cmd |-> [port \in Ports |-> [mode |-> <<"dps", 0>>, limit |-> 0]],
                                                \* the last commands that returned
     used |-> [port \in Ports |-> None]]        \* the desired speed of the last update

\* no direct call yet
CallInit == [op |-> "none"]

\* the sequential use of one motor: nothing called yet
MRetInit ==
    [op |-> "init",             \* the last call
     arg |-> 0,                 \* its argument
     before |-> MotorInit,      \* the motor before it
     delta |-> 0,               \* what update returned
     desired |-> 0,             \* the desired speed update computed
     mode |-> <<"speed", 0>>,   \* the last of set_power, set_dps, set_position asked for
     origin |-> 0,              \* the encoder when the run of updates began
     elapsed |-> 0,             \* the delta_time values of the run, summed
     n |-> 0]                   \* the updates of the run

RaceIdle ==
    /\ rpc = [at |-> "idle", port |-> "left"]
    /\ rloc = [delta |-> [port \in Ports |-> 0], enc |-> 0, k |-> 0, s |-> 0, heading |-> 0]
    /\ user = [op |-> "idle", step |-> 0, port |-> "left", arg |-> 0, tmp |-> 0,
               x |-> 0, y |-> 0, hc |-> 0]
    /\ rhist = RaceHistInit

----------------------------------------------------------------------------
(* Playground: the scheduler.  mainloop runs on the scheduler thread, one  *)
(* step per action below; the user program's thread calls run_once and     *)
(* sets the stop flag between any two steps.                               *)

MaxTicks == 3                       \* calls of Playground.update
MaxClockTicks == 5                  \* the same, when only the clock is followed
MaxActions == 3                     \* run_once calls of the user program
MaxSpawns == 1                      \* of them, those that call run_once themselves
UpdateCosts == {1, 45}              \* time the robots' updates take: as usual, a stall
Exceptions == {"Terminator", "TclError", "Other"}
DriveInputs == {<<300, 100, 200>>, <<300, 200, 200>>}   \* limit, left dps, right dps

HistInit ==
    [ticks |-> 0,             \* calls of update begun
     updTimes |-> <<>>,       \* the clock at each of them
     botCalls |-> <<>>,       \* bot.update calls: [tick, bot, dt]
     executed |-> <<>>,       \* deferred actions run: [id, tick]
     queued |-> <<>>,         \* run_once calls: [id, tick, at, by]
     atStart |-> <<>>,        \* the queue when the update in progress began
     enqDuring |-> FALSE,     \* a run_once since the update in progress began
     refreshes |-> <<>>,      \* the current_time of each screen.update()
     endAt |-> <<>>,          \* when end was set: the update in progress or just done
     cause |-> "none"]        \* what ended mainloop

\* __init__ (lines 21-30), then register_bot for each robot
SchedIdle ==
    /\ bots = [i \in 1 .. NumBots |-> i]
    /\ last_update = None
    /\ last_image_update = None
    /\ end = FALSE
    /\ schedules = <<>>
    /\ now = 0
    /\ pc = "loop"
    /\ start = 0
    /\ current_time = 0
    /\ delta_time = 0
    /\ bi = 0
    /\ idx = 0
    /\ outcome = "running"
    /\ hist = HistInit

Ids(q) == [i \in 1 .. Len(q) |-> q[i].id]
ChildId(id) == id + MaxActions
InUpdate == pc \in {"bots", "drain", "clear", "image"}

\* run_once(func), line 75
RunOnce(q, func) == Append(q, func)

\* the entry the drain loop takes next (lines 51-52: list iteration, by position)
DrainItemLifo(q, i) == q[Len(q) - i]
DrainItem(q, i) == q[i + 1]

\* mainloop's handlers, lines 68-72
MainloopCatchTerminatorOnly(e) == IF e = "Terminator" THEN "returned" ELSE "raised"
MainloopCatch(e) ==
    IF e = "Terminator" THEN "returned"
    ELSE IF e # "TclError" THEN "raised" ELSE "returned"

\* mainloop, line 60: the loop test
LoopContinues(endFlag) == ~endFlag

\* update, line 39: the first call only sets the baseline
IsFirstUpdate(lu) == lu = None

\* update, line 55: is a presentation refresh due
RefreshDue(ct, liu) == ct - Val(liu) > image_interval

\* mainloop, lines 63-66: how long to sleep
SleepTime(s, e) == IF interval - (e - s) > 0 THEN interval - (e - s) ELSE 0

\* update, line 42: the first call returns to mainloop
FirstUpdateFallsThrough == "bots"
FirstUpdateReturns == "post"

\* update, line 45
DeltaTime(ct, lu) == ct - Val(lu)

\* an exception e leaves update: mainloop ends
Raised(e, h) ==
    /\ outcome' = MainloopCatch(e)
    /\ pc' = "done"
    /\ hist' = [h EXCEPT !.cause = e]

\* mainloop, line 60, and line 61 when the loop goes on; the model follows it for
\* maxTicks calls of update
LoopStep(maxTicks) ==
    /\ pc = "loop"
    /\ IF LoopContinues(end)
       THEN /\ hist.ticks < maxTicks
            /\ start' = now
            /\ pc' = "update"
            /\ UNCHANGED <<outcome, hist>>
       ELSE /\ outcome' = "returned"
            /\ pc' = "done"
            /\ hist' = [hist EXCEPT !.cause = "end"]
            /\ UNCHANGED start
    /\ UNCHANGED <<robotVars, pgVars, now, current_time, delta_time, bi, idx, seqVars, raceVars>>

Loop == LoopStep(MaxTicks)
LoopLong == LoopStep(MaxClockTicks)

BeginTick(h) ==
    [h EXCEPT !.ticks = @ + 1, !.updTimes = Append(@, now),
              !.atStart = Ids(schedules), !.enqDuring = FALSE]

\* update, lines 39-42: the first call
UpdateFirst ==
    /\ pc = "update"
    /\ IsFirstUpdate(last_update)
    /\ last_update' = Some(now)
    /\ last_image_update' = Some(now)
    /\ pc' = FirstUpdateReturns
    /\ hist' = BeginTick(hist)
    /\ UNCHANGED <<robotVars, bots, end, schedules, now, start, current_time, delta_time,
                   bi, idx, outcome, seqVars, raceVars>>

\* update, lines 44-46
UpdateBegin ==
    /\ pc = "update"
    /\ ~IsFirstUpdate(last_update)
    /\ current_time' = now
    /\ delta_time' = DeltaTime(now, last_update)
    /\ last_update' = Some(now)
    /\ bi' = 0
    /\ pc' = "bots"
    /\ hist' = BeginTick(hist)
    /\ UNCHANGED <<robotVars, bots, last_image_update, end, schedules, now, start, idx,
                   outcome, seqVars, raceVars>>

\* update, lines 48-49: the next robot's update(delta_time)
BotUpdate ==
    /\ pc = "bots"
    /\ bi < Len(bots)
    /\ LET b == bots[bi + 1]
       IN  /\ motors' = [motors EXCEPT ![b] = BotMotorsAfter(motors[b], delta_time)]
           /\ pose' = [pose EXCEPT ![b] = BotPoseAfter(motors[b], pose[b], delta_time)]
           /\ hist' = [hist EXCEPT !.botCalls =
                          Append(@, [tick |-> hist.ticks, bot |-> b, dt |-> delta_time])]
    /\ bi' = bi + 1
    /\ UNCHANGED <<pgVars, now, pc, start, current_time, delta_time, idx, outcome, seqVars, raceVars>>

\* update, lines 48-49: the robot's update raises out of a turtle call
BotUpdateRaises ==
    /\ pc = "bots"
    /\ bi < Len(bots)
    /\ LET b == bots[bi + 1]
           ms == motors[b]
       IN  /\ motors' = [motors EXCEPT ![b] = BotMotorsAfter(ms, delta_time)]
           /\ pose' = [pose EXCEPT ![b] =
                          AddWheelDeltaRaised(pose[b],
                              MotorUpdateDelta(ms["left"], delta_time),
                              MotorUpdateDelta(ms["right"], delta_time))]
           /\ \E e \in Exceptions :
                Raised(e, [hist EXCEPT !.botCalls =
                          Append(@, [tick |-> hist.ticks, bot |-> b, dt |-> delta_time])])
    /\ UNCHANGED <<pgVars, now, start, current_time, delta_time, bi, idx, seqVars, raceVars>>

\* update, line 48: the robots are exhausted (their updates took c); line 51: the
\* drain begins
BotsEndStep(costs) ==
    /\ pc = "bots"
    /\ bi >= Len(bots)
    /\ \E c \in costs : now' = now + c
    /\ idx' = 0
    /\ pc' = "drain"
    /\ UNCHANGED <<robotVars, pgVars, start, current_time, delta_time, bi, outcome,
                   hist, seqVars, raceVars>>

BotsEnd == BotsEndStep(UpdateCosts)
BotsEndOnTime == BotsEndStep({1})

\* update, lines 51-52: the next deferred action runs; one that spawns calls
\* run_once itself
DrainStep ==
    /\ pc = "drain"
    /\ idx < Len(schedules)
    /\ LET a == DrainItem(schedules, idx)
           ran == [hist EXCEPT !.executed = Append(@, [id |-> a.id, tick |-> hist.ticks])]
       IN  IF a.spawn
           THEN /\ schedules' = RunOnce(schedules, [id |-> ChildId(a.id), spawn |-> FALSE])
                /\ hist' = [ran EXCEPT !.enqDuring = TRUE,
                               !.queued = Append(@, [id |-> ChildId(a.id), tick |-> hist.ticks,
                                                     at |-> pc, by |-> "action",
                                                     spawn |-> FALSE])]
           ELSE /\ hist' = ran
                /\ UNCHANGED schedules
    /\ idx' = idx + 1
    /\ UNCHANGED <<robotVars, bots, last_update, last_image_update, end, now, pc, start,
                   current_time, delta_time, bi, outcome, seqVars, raceVars>>

\* update, line 52: the deferred action raises
DrainRaises ==
    /\ pc = "drain"
    /\ idx < Len(schedules)
    /\ \E e \in Exceptions : Raised(e, hist)
    /\ UNCHANGED <<robotVars, pgVars, now, start, current_time, delta_time, bi, idx, seqVars, raceVars>>

\* update, line 51: the list iterator is exhausted
DrainEnd ==
    /\ pc = "drain"
    /\ idx >= Len(schedules)
    /\ pc' = "clear"
    /\ UNCHANGED <<robotVars, pgVars, now, start, current_time, delta_time, bi, idx,
                   outcome, hist, seqVars, raceVars>>

\* update, line 53: self.schedules.clear()
Clear ==
    /\ pc = "clear"
    /\ schedules' = <<>>
    /\ pc' = "image"
    /\ UNCHANGED <<robotVars, bots, last_update, last_image_update, end, now, start,
                   current_time, delta_time, bi, idx, outcome, hist, seqVars, raceVars>>

\* update, lines 55-56
Image ==
    /\ pc = "image"
    /\ hist' = IF RefreshDue(current_time, last_image_update)
               THEN [hist EXCEPT !.refreshes = Append(@, current_time)]
               ELSE hist
    /\ pc' = "post"
    /\ UNCHANGED <<robotVars, pgVars, now, start, current_time, delta_time, bi, idx,
                   outcome, seqVars, raceVars>>

\* update, line 56: screen.update() raises (the window was closed)
ImageRaises ==
    /\ pc = "image"
    /\ RefreshDue(current_time, last_image_update)
    /\ \E e \in Exceptions : Raised(e, hist)
    /\ UNCHANGED <<robotVars, pgVars, now, start, current_time, delta_time, bi, idx, seqVars, raceVars>>

\* mainloop, lines 63-67: pace the loop
Post ==
    /\ pc = "post"
    /\ now' = now + SleepTime(start, now)
    /\ pc' = "loop"
    /\ UNCHANGED <<robotVars, pgVars, start, current_time, delta_time, bi, idx, outcome,
                   hist, seqVars, raceVars>>

\* the user program, before the loop starts: set_motor_limits(LEFT + RIGHT, dps = l),
\* set_motor_dps(LEFT, vl), set_motor_dps(RIGHT, vr) on the emulated robot
UserDrive ==
    /\ pc = "loop"
    /\ hist.ticks = 0
    /\ motors[1] = [port \in Ports |-> MotorInit]
    /\ \E d \in DriveInputs :
        motors' = [motors EXCEPT ![1] =
            [left |-> SetDps(SetLimits(MotorInit, Dps(d[1])), Dps(d[2])),
             right |-> SetDps(SetLimits(MotorInit, Dps(d[1])), Dps(d[3]))]]
    /\ UNCHANGED <<pose, schedVars, seqVars, raceVars>>

UserQueued == SelectSeq(hist.queued, LAMBDA q : q.by = "user")

\* the user program calls run_once(func)
UserRunOnce ==
    /\ pc # "done"
    /\ Len(UserQueued) < MaxActions
    /\ \E sp \in BOOLEAN :
        LET id == Len(UserQueued) + 1
        IN  /\ sp => Len(SelectSeq(UserQueued, LAMBDA q : q.spawn)) < MaxSpawns
            /\ schedules' = RunOnce(schedules, [id |-> id, spawn |-> sp])
            /\ hist' = [hist EXCEPT !.queued = Append(@, [id |-> id, tick |-> hist.ticks,
                                                         at |-> pc, by |-> "user",
                                                         spawn |-> sp]),
                                    !.enqDuring = @ \/ InUpdate]
    /\ UNCHANGED <<robotVars, bots, last_update, last_image_update, end, threadVars, seqVars, raceVars>>

\* the stop flag is set (by the user program or the host application)
SetEnd ==
    /\ pc # "done"
    /\ ~end
    /\ end' = TRUE
    /\ hist' = [hist EXCEPT !.endAt = Some(IF pc = "update" THEN hist.ticks + 1
                                                              ELSE hist.ticks)]
    /\ UNCHANGED <<robotVars, bots, last_update, last_image_update, schedules, threadVars,
                   seqVars, raceVars>>

\* the scheduler thread, no exception raised
TickNext ==
    \/ Loop \/ UpdateFirst \/ UpdateBegin \/ BotUpdate \/ BotsEnd
    \/ DrainStep \/ DrainEnd \/ Clear \/ Image \/ Post

\* the deferred actions: every tick on time, the robots at rest
SchedNext ==
    \/ Loop \/ UpdateFirst \/ UpdateBegin \/ BotUpdate \/ BotsEndOnTime
    \/ DrainStep \/ DrainEnd \/ Clear \/ Image \/ Post \/ UserRunOnce

\* with the ways mainloop ends: the stop flag and exceptions; the user program
\* queues one action
UserRunOnceOnly == Len(UserQueued) = 0 /\ UserRunOnce

StopNext ==
    \/ TickNext \/ BotUpdateRaises \/ DrainRaises \/ ImageRaises
    \/ UserDrive \/ UserRunOnceOnly \/ SetEnd

\* the clock only: more ticks, no deferred actions
ClockNext ==
    \/ LoopLong \/ UpdateFirst \/ UpdateBegin \/ BotUpdate \/ BotsEnd
    \/ DrainEnd \/ Clear \/ Image \/ Post \/ UserDrive

InitSched ==
    /\ RobotsInit
    /\ SchedIdle
    /\ mphase = "cmd"
    /\ mops = 0
    /\ mret = MRetInit
    /\ lastCall = CallInit
    /\ RaceIdle

Spec == InitSched /\ [][SchedNext]_vars
SpecStop == InitSched /\ [][StopNext]_vars
SpecClock == InitSched /\ [][ClockNext]_vars

----------------------------------------------------------------------------
(* The claims about the scheduler *)

IdsOf(log) == [i \in 1 .. Len(log) |-> log[i].id]
ExecutedIn(t) == IdsOf(SelectSeq(hist.executed, LAMBDA e : e.tick = t))
TimesRun(id) == Len(SelectSeq(hist.executed, LAMBDA e : e.id = id))

\* C1: the actions in the queue, in the order A, B, C, when an update begins are
\* run by that update's drain in exactly that order, if run_once is not called
\* during that update.
C1_FifoOrder ==
    /\ (pc = "drain" /\ ~hist.enqDuring) =>
            ExecutedIn(hist.ticks) = SubSeq(hist.atStart, 1, idx)
    /\ (pc = "clear" /\ ~hist.enqDuring) => ExecutedIn(hist.ticks) = hist.atStart

C1_Witness ==
    /\ pc = "clear"
    /\ ~hist.enqDuring
    /\ hist.atStart = <<1, 2, 3>>
    /\ ExecutedIn(hist.ticks) = <<1, 2, 3>>

\* C2: an action queued while a tick's drain is in progress is not run in that
\* drain, but in the following tick's.
C2_QueuedDuringDrainRunsNextTick ==
    \A i \in 1 .. Len(hist.executed) : \A j \in 1 .. Len(hist.queued) :
        (hist.queued[j].id = hist.executed[i].id /\ hist.queued[j].at = "drain")
            => hist.executed[i].tick = hist.queued[j].tick + 1

\* C3: every action the user program queues is run exactly once: at any moment it
\* is still in the queue or has run, and none has run twice.
C3_ExactlyOnce ==
    \A j \in 1 .. Len(hist.queued) :
        LET id == hist.queued[j].id
        IN  /\ TimesRun(id) <= 1
            /\ TimesRun(id) = 1 \/ \E k \in 1 .. Len(schedules) : schedules[k].id = id

\* C8: the first call of update only records the time baseline: until the second
\* call no robot is updated, no motor or pose has moved, no deferred action has
\* run or left the queue; every later call passes each robot the clock's advance
\* since the call before.
C8_FirstUpdateCalibrates ==
    /\ hist.ticks = 1 =>
        /\ last_update = Some(hist.updTimes[1])
        /\ last_image_update = Some(hist.updTimes[1])
    /\ hist.ticks <= 1 =>
        /\ hist.botCalls = <<>>
        /\ hist.executed = <<>>
        /\ hist.refreshes = <<>>
        /\ Ids(schedules) = IdsOf(hist.queued)
        /\ \A b \in BotIds :
            /\ pose[b] = PoseInit
            /\ \A port \in Ports :
                motors[b][port].encoder = 0 /\ motors[b][port].velocity = 0
    /\ \A i \in 1 .. Len(hist.botCalls) :
        LET c == hist.botCalls[i]
        IN  c.tick >= 2 /\ c.dt = hist.updTimes[c.tick] - hist.updTimes[c.tick - 1]
    /\ \A t \in 2 .. hist.ticks :
        (t < hist.ticks \/ pc \notin {"bots", "done"}) =>
            \A k \in 1 .. Len(bots) :
                \E i \in 1 .. Len(hist.botCalls) :
                    hist.botCalls[i].tick = t /\ hist.botCalls[i].bot = bots[k]

C8_Witness ==
    /\ hist.ticks = 1
    /\ pc = "post"
    /\ motors[1]["left"].speed # 0
    /\ motors[1]["left"].limit # 0
    /\ Len(schedules) > 0

\* C9: two consecutive presentation refreshes are more than image_interval apart.
C9_RefreshSpacing ==
    \A i \in 2 .. Len(hist.refreshes) :
        hist.refreshes[i] - hist.refreshes[i - 1] > image_interval

\* C10: mainloop returns normally when the stop flag is set (no update begins
\* after the one in progress) and when a tick raises turtle.Terminator or
\* tk.TclError; it raises when a tick raises anything else.
C10_MainloopTermination ==
    /\ outcome = "returned" <=> hist.cause \in {"end", "Terminator", "TclError"}
    /\ outcome = "raised" <=> hist.cause = "Other"
    /\ outcome = "running" <=> pc # "done"
    /\ hist.cause = "end" => end
    /\ end => hist.ticks <= Val(hist.endAt)

C10_Witness ==
    /\ pc = "done"
    /\ outcome = "returned"
    /\ hist.cause = "TclError"

\* the simulated time of robot b: the delta_time values its updates were given
RECURSIVE SimTimeUpTo(_, _)
SimTimeUpTo(b, n) ==
    IF n = 0 THEN 0
    ELSE SimTimeUpTo(b, n - 1) + (IF hist.botCalls[n].bot = b THEN hist.botCalls[n].dt ELSE 0)

SimTime(b) == SimTimeUpTo(b, Len(hist.botCalls))

\* the call n of update took more than the interval: call n + 1 began late
Overran(n) == hist.updTimes[n + 1] - hist.updTimes[n] > interval

\* C11: an overrun is not made up for: once every update so far overran, the
\* simulated time given to a robot is less than the time elapsed on the clock
\* since the baseline.
C11_RealTimeSlip ==
    (/\ pc = "bots"
     /\ bi = Len(bots)
     /\ hist.ticks >= 3
     /\ \A n \in 2 .. hist.ticks - 1 : Overran(n))
        => \A b \in BotIds : SimTime(b) < current_time - hist.updTimes[1]

----------------------------------------------------------------------------
(* One motor driven sequentially: any commands and updates, then (once a   *)
(* target position and a nonzero limit are set) updates only.              *)

MaxMotorOps == 3

LimitInputs == {0, 300, -300}       \* degrees per second
DpsInputs == {-100, 200}            \* degrees per second
PowerInputs == {MotorFloat, 64, 127}
PositionInputs == {-5, 3}           \* degrees
OffsetInputs == {1}                 \* degrees
DeltaTimes == {3, 24}               \* 2.5 ms (one nominal tick) and 20 ms

InitMotor ==
    /\ RobotsInit
    /\ SchedIdle
    /\ mphase = "cmd"
    /\ mops = 0
    /\ mret = MRetInit
    /\ lastCall = CallInit
    /\ RaceIdle

MotorCmd(op, arg, m, mode) ==
    /\ mphase = "cmd"
    /\ mops < MaxMotorOps
    /\ motors' = [motors EXCEPT ![1]["left"] = m]
    /\ mops' = mops + 1
    /\ mret' = [mret EXCEPT !.op = op, !.arg = arg, !.before = motors[1]["left"],
                            !.delta = 0, !.desired = 0, !.mode = mode]
    /\ UNCHANGED <<mphase, pose, schedVars, raceVars, lastCall>>

MSetLimits ==
    \E d \in LimitInputs :
        MotorCmd("set_limits", Dps(d), SetLimits(motors[1]["left"], Dps(d)), mret.mode)
MSetDps ==
    \E d \in DpsInputs :
        MotorCmd("set_dps", Dps(d), SetDps(motors[1]["left"], Dps(d)), <<"speed", Dps(d)>>)
MSetPower ==
    \E p \in PowerInputs :
        MotorCmd("set_power", p, SetPower(motors[1]["left"], p),
                 <<"speed", IF p = MotorFloat THEN 0 ELSE p * MaxPowerDps>>)
MSetPosition ==
    \E d \in PositionInputs :
        MotorCmd("set_position", Deg(d), SetPosition(motors[1]["left"], d),
                 <<"position", Deg(d)>>)
MOffsetEncoder ==
    \E d \in OffsetInputs :
        MotorCmd("offset_encoder", Deg(d), OffsetEncoder(motors[1]["left"], d), mret.mode)

MUpdate ==
    \E dt \in DeltaTimes :
        /\ mphase = "cmd"
        /\ mops < MaxMotorOps
        /\ motors' = [motors EXCEPT ![1]["left"] = MotorUpdate(@, dt)]
        /\ mops' = mops + 1
        /\ mret' = [mret EXCEPT !.op = "update", !.arg = dt, !.before = motors[1]["left"],
                                !.delta = MotorUpdateDelta(motors[1]["left"], dt),
                                !.desired = DesiredSpeed(motors[1]["left"])]
        /\ UNCHANGED <<mphase, pose, schedVars, raceVars, lastCall>>

\* from here on the user program issues no more commands
StartHold ==
    /\ mphase = "cmd"
    /\ motors[1]["left"].target # None
    /\ motors[1]["left"].limit # 0
    /\ mphase' = "hold"
    /\ UNCHANGED <<motors, mops, mret, pose, schedVars, raceVars, lastCall>>

HoldUpdate ==
    \E dt \in DeltaTimes :
        /\ mphase = "hold"
        /\ motors' = [motors EXCEPT ![1]["left"] = MotorUpdate(@, dt)]
        /\ mret' = [mret EXCEPT !.op = "update", !.arg = dt, !.before = motors[1]["left"],
                                !.delta = MotorUpdateDelta(motors[1]["left"], dt),
                                !.desired = DesiredSpeed(motors[1]["left"])]
        /\ UNCHANGED <<mphase, mops, pose, schedVars, raceVars, lastCall>>

NextPosition ==
    \/ MSetLimits \/ MSetDps \/ MSetPower \/ MSetPosition \/ MOffsetEncoder
    \/ MUpdate \/ StartHold \/ HoldUpdate

\* speed mode, commands over: updates only, MaxUpdates of them
MaxUpdates == 3

StartCruise ==
    /\ mphase = "cmd"
    /\ motors[1]["left"].target = None
    /\ mphase' = "cruise"
    /\ mret' = [mret EXCEPT !.op = "cruise", !.origin = motors[1]["left"].encoder,
                            !.elapsed = 0, !.n = 0]
    /\ UNCHANGED <<motors, mops, pose, schedVars, raceVars, lastCall>>

CruiseUpdate ==
    \E dt \in DeltaTimes :
        /\ mphase = "cruise"
        /\ mret.n < MaxUpdates
        /\ motors' = [motors EXCEPT ![1]["left"] = MotorUpdate(@, dt)]
        /\ mret' = [mret EXCEPT !.op = "update", !.arg = dt, !.before = motors[1]["left"],
                                !.delta = MotorUpdateDelta(motors[1]["left"], dt),
                                !.desired = DesiredSpeed(motors[1]["left"]),
                                !.elapsed = @ + dt, !.n = @ + 1]
        /\ UNCHANGED <<mphase, mops, pose, schedVars, raceVars, lastCall>>

NextCruise ==
    \/ MSetLimits \/ MSetDps \/ MSetPower \/ MOffsetEncoder \/ MUpdate
    \/ StartCruise \/ CruiseUpdate

SpecCruise == InitMotor /\ [][NextCruise]_vars

\* the scheduler calls update on every tick: an update is never postponed forever
SpecPosition == InitMotor /\ [][NextPosition]_vars /\ WF_vars(HoldUpdate)

\* C4: in position mode with a nonzero limit, repeated updates (any positive
\* delta_time each) eventually bring the encoder within 2 degrees of the target.
C4_PositionConverges ==
    (mphase = "hold") ~> (mphase = "hold" /\ TargetReached(motors[1]["left"]))

\* C12: set_power(-128) leaves the motor as set_dps(0) would, any other
\* set_power(power) as set_dps(power / 127 * 500) would (power * 500 speed
\* units); either way no target position is left.
C12_SetPowerIsSetDps ==
    mret.op = "set_power" =>
        /\ motors[1]["left"] =
               SetDps(mret.before, IF mret.arg = -128 THEN 0 ELSE mret.arg * 500)
        /\ motors[1]["left"].target = None

\* set_power(-128) on a motor that was in position mode and had a speed
C12_Witness ==
    /\ mret.op = "set_power"
    /\ mret.arg = -128
    /\ mret.before.target # None
    /\ motors[1]["left"].speed = 0

\* C13: after any sequence of completed calls the motor is in position mode
\* (target set, speed 0) exactly when the last of set_power, set_dps and
\* set_position was set_position, and else in speed mode (no target, the
\* speed last commanded); a target is never set with a nonzero speed.
C13_ModesExclusive ==
    LET m == motors[1]["left"]
    IN  /\ m.target # None <=> mret.mode[1] = "position"
        /\ mret.mode[1] = "position" => m.target = Some(mret.mode[2]) /\ m.speed = 0
        /\ mret.mode[1] = "speed" => m.target = None /\ m.speed = mret.mode[2]
        /\ m.target # None => m.speed = 0

\* set_position after a nonzero speed was commanded
C13_Witness ==
    /\ mret.op = "set_position"
    /\ mret.before.speed # 0
    /\ motors[1]["left"].target # None

C15_LimitNonNegative ==
    /\ motors[1]["left"].limit >= 0
    /\ mret.op = "set_limits" => motors[1]["left"].limit = Abs(mret.arg)

\* set_limits of a negative speed
C15_Witness ==
    /\ mret.op = "set_limits"
    /\ mret.arg < 0
    /\ motors[1]["left"].limit = -mret.arg

\* speed clamped to [-limit, limit]
ClampedSpeed(m) ==
    IF m.speed > m.limit THEN m.limit
    ELSE IF m.speed < -m.limit THEN -m.limit
    ELSE m.speed

\* C16: in speed mode with speed and limit held, after N updates the encoder
\* is where it began plus v times the delta_time values summed, v the speed
\* clamped to the limit, and each update returns v times its delta_time.
C16_EncoderFollowsSpeed ==
    mphase = "cruise" =>
        /\ motors[1]["left"].encoder =
               mret.origin + ClampedSpeed(motors[1]["left"]) * mret.elapsed
        /\ mret.op = "update" =>
               mret.delta = ClampedSpeed(motors[1]["left"]) * mret.arg

\* three updates of unequal delta_time at a speed cut by the limit
C16_Witness ==
    /\ mphase = "cruise"
    /\ mret.n = 3
    /\ mret.elapsed = 30
    /\ motors[1]["left"].speed > motors[1]["left"].limit
    /\ motors[1]["left"].limit > 0
    /\ motors[1]["left"].encoder # mret.origin

----------------------------------------------------------------------------
(* The user program's thread against one robot's update.  emulate starts   *)
(* the user program on a thread of its own before mainloop; neither side   *)
(* takes a lock, so the interpreter may switch threads between any two     *)
(* loads and stores of the shared fields.  One action below is one load or *)
(* store of a shared field, with the thread-local computation around it;   *)
(* only lines 27-34 of GoPiGoMotor.update, which load the command fields   *)
(* and store velocity, are taken as one step: the commands followed here   *)
(* are those that returned before the update began.                        *)

MaxRaceTicks == 2                   \* robot updates
MaxUserOps == 2                     \* calls of the user program
RacePorts == {"left"}               \* the motor the user program commands
RaceLimitInputs == {150}
RaceDpsInputs == {-200}
RacePowerInputs == {MotorFloat, 127}
RacePositionInputs == {3}
RaceDeltaTimes == {3, 24}

RaceStart(at, port) == [at |-> at, port |-> port]
UserIdle ==
    [op |-> "idle", step |-> 0, port |-> "left", arg |-> 0, tmp |-> 0,
     x |-> 0, y |-> 0, hc |-> 0]
UserBegins == user.op = "idle" /\ rhist.ops < MaxUserOps
UserCall(op, port, arg) ==
    [user EXCEPT !.op = op, !.step = 1, !.port = port, !.arg = arg]
Began == [rhist EXCEPT !.ops = @ + 1]

\* a command of the user program on this motor has begun and not returned
CommandInFlight(port) ==
    user.op \in {"set_dps", "set_power", "set_position"} /\ user.port = port

\* what the commands that returned ask of the motor: the speed, clamped to the
\* limit, or full limit towards the position while further than Precision from it
ExpectedDesired(c, encoder) ==
    IF c.mode[1] = "dps"
    THEN IF c.mode[2] > c.limit THEN c.limit
         ELSE IF c.mode[2] < -c.limit THEN -c.limit
         ELSE c.mode[2]
    ELSE IF encoder < c.mode[2] - Deg(Precision) THEN c.limit
         ELSE IF encoder > c.mode[2] + Deg(Precision) THEN -c.limit
         ELSE 0

\* the robot already drives: set_motor_limits, set_motor_dps on both motors
RaceDrive ==
    /\ rpc.at = "idle"
    /\ rhist.ticks = 0
    /\ rhist.ops = 0
    /\ user.op = "idle"
    /\ motors[1] = [port \in Ports |-> MotorInit]
    /\ \E d \in DriveInputs :
        /\ motors' = [motors EXCEPT ![1] =
            [left |-> SetDps(SetLimits(MotorInit, Dps(d[1])), Dps(d[2])),
             right |-> SetDps(SetLimits(MotorInit, Dps(d[1])), Dps(d[3]))]]
        /\ rhist' = [rhist EXCEPT !.cmd =
            [left |-> [mode |-> <<"dps", Dps(d[2])>>, limit |-> Dps(d[1])],
             right |-> [mode |-> <<"dps", Dps(d[3])>>, limit |-> Dps(d[1])]]]
    /\ UNCHANGED <<pose, schedVars, seqVars, rpc, rloc, user>>

\* Playground.update, lines 44-49: delta_time, then bot.update(delta_time)
RaceTickBegin ==
    /\ rpc.at = "idle"
    /\ rhist.ticks < MaxRaceTicks
    /\ \E dt \in RaceDeltaTimes : delta_time' = dt
    /\ rpc' = RaceStart("compute", "left")
    /\ UNCHANGED <<robotVars, pgVars, now, pc, start, current_time, bi, idx, outcome, hist,
                   seqVars, rloc, user, rhist>>

\* GoPiGoMotor.update, lines 27-34: the desired speed, self.velocity, delta_rotate
RaceMotorCompute ==
    /\ rpc.at = "compute"
    /\ LET m == motors[1][rpc.port]
           desired == DesiredSpeed(m)
           v == UpdateVelocity(m.velocity, desired, delta_time)
       IN  /\ motors' = [motors EXCEPT ![1][rpc.port].velocity = v]
           /\ rloc' = [rloc EXCEPT !.delta[rpc.port] = DeltaRotate(v, delta_time)]
           /\ rhist' = [rhist EXCEPT !.used[rpc.port] =
                  Some([desired |-> desired,
                        busy |-> CommandInFlight(rpc.port),
                        expected |-> ExpectedDesired(rhist.cmd[rpc.port], m.encoder)])]
    /\ rpc' = [rpc EXCEPT !.at = "load"]
    /\ UNCHANGED <<pose, schedVars, seqVars, user>>

\* GoPiGoMotor.update, line 35, self.encoder += delta_rotate: the load
RaceEncoderLoad ==
    /\ rpc.at = "load"
    /\ rloc' = [rloc EXCEPT !.enc = motors[1][rpc.port].encoder]
    /\ rpc' = [rpc EXCEPT !.at = "store"]
    /\ UNCHANGED <<robotVars, schedVars, seqVars, user, rhist>>

\* GoPiGoMotor.update, line 35, self.encoder += delta_rotate: the store; then
\* the right motor, or add_wheel_delta
RaceEncoderStore ==
    /\ rpc.at = "store"
    /\ motors' = [motors EXCEPT ![1][rpc.port].encoder = rloc.enc + rloc.delta[rpc.port]]
    /\ rhist' = [rhist EXCEPT !.ideal[rpc.port] = @ + rloc.delta[rpc.port]]
    /\ rloc' = [rloc EXCEPT !.enc = 0]         \* the value loaded is dead from here on
    /\ rpc' = IF rpc.port = "left" THEN RaceStart("compute", "right")
              ELSE RaceStart("x", "right")
    /\ UNCHANGED <<pose, schedVars, seqVars, user>>

\* add_wheel_delta, lines 233-239 (242): k, s, heading, then self.x is written
RaceWriteX ==
    /\ rpc.at = "x"
    /\ LET k == WheelK(rloc.delta["left"], rloc.delta["right"])
           s == WheelS(rloc.delta["left"], rloc.delta["right"])
       IN  /\ rloc' = [rloc EXCEPT !.k = k, !.s = s, !.heading = pose[1].heading]
           /\ pose' = [pose EXCEPT ![1].x = NewX(@, pose[1].heading, k, s)]
    /\ rpc' = [rpc EXCEPT !.at = "y"]
    /\ UNCHANGED <<motors, schedVars, seqVars, user, rhist>>

\* add_wheel_delta, line 240 (243): self.y is written
RaceWriteY ==
    /\ rpc.at = "y"
    /\ pose' = [pose EXCEPT ![1].y = NewY(@, rloc.heading, rloc.k, rloc.s)]
    /\ rpc' = [rpc EXCEPT !.at = "heading"]
    /\ UNCHANGED <<motors, schedVars, seqVars, rloc, user, rhist>>

\* add_wheel_delta, lines 244-251: self.heading is written; the update is complete
RaceWriteHeading ==
    /\ rpc.at = "heading"
    /\ pose' = [pose EXCEPT ![1].heading = rloc.heading + rloc.k]
    /\ rhist' = [rhist EXCEPT !.ticks = @ + 1, !.committed = @ \cup {pose'[1]}]
    /\ rpc' = RaceStart("idle", "left")
    /\ UNCHANGED <<motors, schedVars, seqVars, rloc, user>>

\* set_limits(dps): one store
UserSetLimits ==
    /\ UserBegins
    /\ \E port \in RacePorts, d \in RaceLimitInputs :
        /\ motors' = [motors EXCEPT ![1][port] = SetLimits(@, Dps(d))]
        /\ rhist' = [Began EXCEPT !.cmd[port].limit = Dps(Abs(d))]
    /\ UNCHANGED <<pose, schedVars, seqVars, rpc, rloc, user>>

\* set_dps(dps), line 56
UserSetDpsBegin ==
    /\ UserBegins
    /\ \E port \in RacePorts, d \in RaceDpsInputs :
        /\ motors' = [motors EXCEPT ![1][port] = SetDpsTarget(@)]
        /\ user' = UserCall("set_dps", port, Dps(d))
    /\ rhist' = Began
    /\ UNCHANGED <<pose, schedVars, seqVars, rpc, rloc>>

\* set_power(power), lines 50-53, into set_dps, line 56
UserSetPowerBegin ==
    /\ UserBegins
    /\ \E port \in RacePorts, power \in RacePowerInputs :
        /\ motors' = [motors EXCEPT ![1][port] = SetDpsTarget(@)]
        /\ user' = UserCall("set_power", port,
                            IF power = MotorFloat THEN 0 ELSE power * MaxPowerDps)
    /\ rhist' = Began
    /\ UNCHANGED <<pose, schedVars, seqVars, rpc, rloc>>

\* set_dps(dps), line 57; the call returns
UserSetDpsEnd ==
    /\ user.op \in {"set_dps", "set_power"}
    /\ motors' = [motors EXCEPT ![1][user.port] = SetDpsSpeed(@, user.arg)]
    /\ rhist' = [rhist EXCEPT !.cmd[user.port].mode = <<"dps", user.arg>>]
    /\ user' = UserIdle
    /\ UNCHANGED <<pose, schedVars, seqVars, rpc, rloc>>

\* set_position(degrees), line 39
UserSetPositionBegin ==
    /\ UserBegins
    /\ \E port \in RacePorts, d \in RacePositionInputs :
        /\ motors' = [motors EXCEPT ![1][port] = SetPositionTarget(@, d)]
        /\ user' = UserCall("set_position", port, Deg(d))
    /\ rhist' = Began
    /\ UNCHANGED <<pose, schedVars, seqVars, rpc, rloc>>

\* set_position(degrees), line 40; the call returns
UserSetPositionEnd ==
    /\ user.op = "set_position"
    /\ motors' = [motors EXCEPT ![1][user.port] = SetPositionSpeed(@)]
    /\ rhist' = [rhist EXCEPT !.cmd[user.port].mode = <<"position", user.arg>>]
    /\ user' = UserIdle
    /\ UNCHANGED <<pose, schedVars, seqVars, rpc, rloc>>

\* offset_encoder(degrees), self.encoder -= degrees: the load
UserOffsetLoad ==
    /\ UserBegins
    /\ \E port \in RacePorts, d \in OffsetInputs :
        user' = [UserCall("offset_encoder", port, d) EXCEPT !.tmp = motors[1][port].encoder]
    /\ rhist' = Began
    /\ UNCHANGED <<robotVars, schedVars, seqVars, rpc, rloc>>

\* reset_motor_encoder(port): get_motor_encoder(port), the offset to apply
UserResetRead ==
    /\ UserBegins
    /\ \E port \in RacePorts :
        user' = UserCall("reset_motor_encoder", port, GetEncoder(motors[1][port]))
    /\ rhist' = Began
    /\ UNCHANGED <<robotVars, schedVars, seqVars, rpc, rloc>>

\* reset_motor_encoder(port), in offset_encoder: the load
UserResetLoad ==
    /\ user.op = "reset_motor_encoder"
    /\ user.step = 1
    /\ user' = [user EXCEPT !.step = 2, !.tmp = motors[1][user.port].encoder]
    /\ UNCHANGED <<robotVars, schedVars, seqVars, rpc, rloc, rhist>>

\* offset_encoder(degrees), self.encoder -= degrees: the store; the call returns
UserOffsetStore ==
    /\ \/ user.op = "offset_encoder"
       \/ user.op = "reset_motor_encoder" /\ user.step = 2
    /\ LET loaded == [motors[1][user.port] EXCEPT !.encoder = user.tmp]
       IN  motors' = [motors EXCEPT ![1][user.port].encoder =
                          OffsetEncoder(loaded, user.arg).encoder]
    /\ rhist' = [rhist EXCEPT !.ideal[user.port] = @ - Deg(user.arg)]
    /\ user' = UserIdle
    /\ UNCHANGED <<pose, schedVars, seqVars, rpc, rloc>>

\* read_mm, line 97: the arguments of raytrace, left to right; self.bot.x
UserReadX ==
    /\ UserBegins
    /\ user' = [UserCall("read_mm", "left", 0) EXCEPT !.x = pose[1].x]
    /\ rhist' = Began
    /\ UNCHANGED <<robotVars, schedVars, seqVars, rpc, rloc>>

\* read_mm, line 97: self.bot.y
UserReadY ==
    /\ user.op = "read_mm"
    /\ user.step = 1
    /\ user' = [user EXCEPT !.step = 2, !.y = pose[1].y]
    /\ UNCHANGED <<robotVars, schedVars, seqVars, rpc, rloc, rhist>>

\* read_mm, line 97: cos(self.bot.heading)
UserReadHeadingCos ==
    /\ user.op = "read_mm"
    /\ user.step = 2
    /\ user' = [user EXCEPT !.step = 3, !.hc = pose[1].heading]
    /\ UNCHANGED <<robotVars, schedVars, seqVars, rpc, rloc, rhist>>

\* read_mm, line 97: sin(self.bot.heading); raytrace runs on what was read
UserReadHeadingSin ==
    /\ user.op = "read_mm"
    /\ user.step = 3
    /\ rhist' = [rhist EXCEPT !.snap =
           Some([x |-> user.x, y |-> user.y, hc |-> user.hc, hs |-> pose[1].heading])]
    /\ user' = UserIdle
    /\ UNCHANGED <<robotVars, schedVars, seqVars, rpc, rloc>>

RaceNext ==
    \/ RaceDrive \/ RaceTickBegin \/ RaceMotorCompute \/ RaceEncoderLoad \/ RaceEncoderStore
    \/ RaceWriteX \/ RaceWriteY \/ RaceWriteHeading
    \/ UserSetLimits \/ UserSetDpsBegin \/ UserSetPowerBegin \/ UserSetDpsEnd
    \/ UserSetPositionBegin \/ UserSetPositionEnd
    \/ UserOffsetLoad \/ UserResetRead \/ UserResetLoad \/ UserOffsetStore
    \/ UserReadX \/ UserReadY \/ UserReadHeadingCos \/ UserReadHeadingSin

SpecRace == InitSched /\ [][RaceNext]_vars

\* C5: a read_mm of the user program, whenever it runs relative to a robot
\* update, works on the pose (x, y, heading) left by one completed update,
\* never on a mixture of two.
C5_ReadsCommittedPose ==
    rhist.snap # None =>
        /\ Val(rhist.snap).hc = Val(rhist.snap).hs
        /\ [x |-> Val(rhist.snap).x, y |-> Val(rhist.snap).y,
            heading |-> Val(rhist.snap).hc] \in rhist.committed

\* no load-then-store of this motor's encoder is between its load and its store
EncoderQuiet(port) ==
    /\ ~(rpc.port = port /\ rpc.at = "store")
    /\ ~(user.port = port /\ user.op = "offset_encoder")
    /\ ~(user.port = port /\ user.op = "reset_motor_encoder" /\ user.step = 2)

\* C6: however offset_encoder(d) of the user program interleaves with the
\* update's encoder += delta_rotate, once both are done the encoder holds
\* every increment and every offset: old + delta_rotate - d.
C6_EncoderWritesNotLost ==
    \A port \in Ports :
        EncoderQuiet(port) => motors[1][port].encoder = rhist.ideal[port]

\* C7: a motor command that returned before a motor's update began is what
\* that update computes its desired speed from.
C7_CommandVisibleNextTick ==
    \A port \in Ports :
        (rhist.used[port] # None /\ ~Val(rhist.used[port]).busy) =>
            Val(rhist.used[port]).desired = Val(rhist.used[port]).expected

\* an update ran after set_position and set_limits of the user program returned
C7_Witness ==
    /\ rhist.used["left"] # None
    /\ ~Val(rhist.used["left"]).busy
    /\ rhist.cmd["left"].mode[1] = "position"
    /\ rhist.cmd["left"].limit = Dps(150)
    /\ rpc = RaceStart("load", "left")
    /\ Val(rhist.used["left"]).desired = Dps(150)

----------------------------------------------------------------------------
(* GoPiGoDistanceSensor.  Lengths are in units of LenUnit micrometres, the *)
(* robot on a grid of that pitch.  A direction is [dx, dy, eps]: dx and dy *)
(* are whole numbers, and eps # 0 says that dx is not 0 but a rounding     *)
(* residue of sign eps, as cos(heading) is a quarter turn away from 0      *)
(* (cos(pi / 2) = 6.1e-17, cos(3 pi / 2) = -1.8e-16).  A distance is kept  *)
(* as its square, the fraction num / den.                                  *)

LenUnit == 100000                   \* 100 mm
ArenaWidth == 800                   \* mm
ArenaHeight == 800
Saturation == 8190

\* Playground.__init__, lines 31-33, at scale 1
Rect ==
    LET rw == (ArenaWidth * 1000) \div LenUnit
        rh == (ArenaHeight * 1000) \div LenUnit
    IN  <<-(rw \div 2), -(rh \div 2), rw \div 2, rh \div 2>>

\* read_mm, lines 91-96: x1, y1, x2, y2 of each side
Segments(rect) ==
    << <<rect[1], rect[2], rect[3], rect[2]>>,
       <<rect[3], rect[2], rect[3], rect[4]>>,
       <<rect[3], rect[4], rect[1], rect[4]>>,
       <<rect[1], rect[4], rect[1], rect[2]>> >>

Dir(dx, dy, eps) == [dx |-> dx, dy |-> dy, eps |-> eps]

\* read_mm, line 97: cos(heading), sin(heading) of the headings followed
HeadingDir(h) ==
    CASE h = 0 -> Dir(1, 0, 0)
      [] h = Pi4 \div 4 -> Dir(1, 1, 0)
      [] h = Pi4 \div 2 -> Dir(0, 1, 1)
      [] h = Pi4 -> Dir(-1, 0, 0)
      [] h = 3 * (Pi4 \div 2) -> Dir(0, -1, -1)
      [] h = -(Pi4 \div 2) -> Dir(0, -1, 1)

Miss == [hit |-> FALSE, num |-> 0, den |-> 1]
Hit(num, den) == [hit |-> TRUE, num |-> num, den |-> den]

\* intersection, lines 127-131: dx == 0
IntersectionVertical(x, y, d, seg) ==
    LET i_dx == seg[3] - seg[1]
        i_dy == seg[4] - seg[2]
        dn == (x - seg[1]) * i_dy + (seg[2] - y) * i_dx       \* d = dn / idx
    IN  IF i_dx = 0 THEN Miss
        ELSE IF d.dy < 0 /\ dn * i_dx < 0 THEN Hit(dn * dn, i_dx * i_dx)
        ELSE IF d.dy > 0 /\ dn * i_dx > 0 THEN Hit(dn * dn, i_dx * i_dx)
        ELSE Miss

\* intersection, lines 133-142: dx # 0, in exact arithmetic
\* t = tn / a, k = kn / (a dx), the point met is (x + kn / a, y + yn / a)
IntersectionExact(x, y, d, seg) ==
    LET i_dx == seg[3] - seg[1]
        i_dy == seg[4] - seg[2]
        a == i_dy * d.dx - i_dx * d.dy
        tn == (y - seg[2]) * d.dx + (seg[1] - x) * d.dy
        kn == (seg[1] - x) * a + tn * i_dx
        yn == (seg[2] - y) * a + tn * i_dy
    IN  IF a = 0 THEN Miss
        ELSE IF kn * a * d.dx < 0 \/ (tn - a) * a > 0 \/ tn * a < 0 THEN Miss
        ELSE Hit(kn * kn + yn * yn, a * a)

\* intersection, lines 133-142: dx a rounding residue.  dy / dx is beyond
\* 1e16, so in t the term y - y1 is rounded away and t is (x - x1) / idx up
\* to rounding; x1 + t * idx - x is then no more than the rounding error of
\* that sum, of either sign (noise), and k its quotient by dx
IntersectionResidue(x, y, d, seg, noise) ==
    LET i_dx == seg[3] - seg[1]
        i_dy == seg[4] - seg[2]
        tn == x - seg[1]                                    \* t = tn / idx
        yn == (seg[2] - y) * i_dx + tn * i_dy
    IN  IF i_dx = 0
        THEN IF x = seg[1] /\ (y - seg[2]) * i_dy >= 0 /\ (y - seg[4]) * i_dy <= 0
             THEN Hit(0, 1) ELSE Miss
        ELSE IF noise * d.eps < 0 \/ tn * i_dx < 0 \/ (tn - i_dx) * i_dx > 0 THEN Miss
        ELSE Hit(yn * yn, i_dx * i_dx)

\* intersection(x, y, dx, dy, x1, y1, x2, y2)
Intersection(x, y, d, seg, noise) ==
    IF d.eps # 0 THEN IntersectionResidue(x, y, d, seg, noise)
    ELSE IF d.dx = 0 THEN IntersectionVertical(x, y, d, seg)
    ELSE IntersectionExact(x, y, d, seg)

\* raytrace, line 105: d >= 0 and d < best_d
Closer(r, best) == r.hit /\ (~best.hit \/ r.num * best.den < best.num * r.den)

\* raytrace, lines 102-107: the sides in order, from side i on
RECURSIVE RaytraceFrom(_, _, _)
RaytraceFrom(hits, best, i) ==
    IF i > Len(hits) THEN best
    ELSE RaytraceFrom(hits, IF Closer(hits[i], best) THEN hits[i] ELSE best, i + 1)

Raytrace(hits) == RaytraceFrom(hits, Miss, 1)

\* read_mm, lines 98-99
ReadMm(best) ==
    IF ~best.hit THEN [sat |-> TRUE, num |-> Saturation, den |-> 1]
    ELSE [sat |-> FALSE, num |-> best.num, den |-> best.den]

SensorCoords == -5 .. 5
SensorHeadings == {0, Pi4 \div 4, Pi4 \div 2, Pi4, 3 * (Pi4 \div 2), -(Pi4 \div 2)}
RayDirs ==
    {Dir(1, 0, 0), Dir(0, 1, 0), Dir(-1, 0, 0), Dir(0, -1, 0),
     Dir(1, 1, 0), Dir(-1, 2, 0), Dir(2, -1, 0), Dir(-2, -1, 0)}
NoiseInputs == {<<n1, 0, n3, 0>> : n1 \in {-1, 0, 1}, n3 \in {-1, 0, 1}}

\* teleport(x, y), and the heading the robot has turned to
SensorPlace ==
    /\ lastCall.op = "none"
    /\ \E x \in SensorCoords, y \in SensorCoords, h \in SensorHeadings :
        pose' = [pose EXCEPT ![1] = [x |-> x * LenUnit, y |-> y * LenUnit, heading |-> h]]
    /\ lastCall' = [op |-> "place"]
    /\ UNCHANGED <<motors, schedVars, mphase, mops, mret, raceVars>>

\* read_mm()
SensorRead ==
    /\ lastCall.op = "place"
    /\ \E noise \in NoiseInputs :
        LET x == pose[1].x \div LenUnit
            y == pose[1].y \div LenUnit
            d == HeadingDir(pose[1].heading)
            segs == Segments(Rect)
            hits == [i \in 1 .. 4 |-> Intersection(x, y, d, segs[i], noise[i])]
        IN  lastCall' = [op |-> "read_mm", x |-> x, y |-> y, d |-> d, hits |-> hits,
                         result |-> ReadMm(Raytrace(hits))]
    /\ UNCHANGED <<robotVars, schedVars, mphase, mops, mret, raceVars>>

\* intersection called with any direction, the robot anywhere
IntersectionCall ==
    /\ lastCall.op = "none"
    /\ \E x \in SensorCoords, y \in SensorCoords, d \in RayDirs, i \in 1 .. 4 :
        lastCall' = [op |-> "intersection", x |-> x, y |-> y, d |-> d,
                     seg |-> Segments(Rect)[i],
                     result |-> Intersection(x, y, d, Segments(Rect)[i], 0)]
    /\ UNCHANGED <<robotVars, schedVars, mphase, mops, mret, raceVars>>

NextSensor == SensorPlace \/ SensorRead \/ IntersectionCall

SpecSensor == InitSched /\ [][NextSensor]_vars

StrictlyInside(x, y) == Rect[1] < x /\ x < Rect[3] /\ Rect[2] < y /\ y < Rect[4]

\* the distance from (x, y) to the side a robot of heading h faces
FacedWallDistance(x, y, h) ==
    CASE h = 0 -> Rect[3] - x
      [] h = Pi4 \div 2 -> Rect[4] - y
      [] h = Pi4 -> x - Rect[1]
      [] h = 3 * (Pi4 \div 2) -> y - Rect[2]
      [] h = -(Pi4 \div 2) -> y - Rect[2]

AxisHeadings == {0, Pi4 \div 2, Pi4, 3 * (Pi4 \div 2), -(Pi4 \div 2)}

\* C17: for a robot strictly inside the arena, heading along an axis, read_mm
\* returns the perpendicular distance to the wall it faces.
C17_AxisAlignedDistance ==
    (/\ lastCall.op = "read_mm"
     /\ StrictlyInside(lastCall.x, lastCall.y)
     /\ pose[1].heading \in AxisHeadings)
        => LET w == FacedWallDistance(lastCall.x, lastCall.y, pose[1].heading)
           IN  /\ ~lastCall.result.sat
               /\ lastCall.result.num = w * w * lastCall.result.den

\* C18: read_mm returns 8190 exactly when no side is hit, never for a robot
\* strictly inside the arena, and otherwise the least of the distances of the
\* sides hit.
C18_SaturatesOnlyWithoutHit ==
    lastCall.op = "read_mm" =>
        LET r == lastCall.result
            hits == lastCall.hits
        IN  /\ r.sat <=> \A i \in 1 .. 4 : ~hits[i].hit
            /\ StrictlyInside(lastCall.x, lastCall.y) => ~r.sat
            /\ ~r.sat =>
                /\ \E i \in 1 .. 4 :
                    hits[i].hit /\ r.num * hits[i].den = hits[i].num * r.den
                /\ \A i \in 1 .. 4 :
                    hits[i].hit => r.num * hits[i].den <= hits[i].num * r.den

\* the ray from (x, y) along d meets the bounded segment: x + k d = p1 + t (p2 - p1)
\* with k >= 0 and 0 <= t <= 1, k and t as quotients of cross products
RayMeetsSegment(x, y, d, seg) ==
    LET ex == seg[3] - seg[1]
        ey == seg[4] - seg[2]
        wx == seg[1] - x
        wy == seg[2] - y
        de == d.dx * ey - d.dy * ex
        we == wx * ey - wy * ex
        wd == wx * d.dy - wy * d.dx
    IN  /\ de # 0
        /\ we * de >= 0
        /\ wd * de >= 0
        /\ (wd - de) * de <= 0

\* C19: intersection reports a hit only when the ray meets the bounded
\* segment (k >= 0, 0 <= t <= 1), for any direction, a vertical one included,
\* and any position of the robot.
C19_HitOnlyOnSegment ==
    (lastCall.op = "intersection" /\ lastCall.result.hit)
        => RayMeetsSegment(lastCall.x, lastCall.y, lastCall.d, lastCall.seg)

----------------------------------------------------------------------------
(* TwoWheelsBot.add_wheel_delta called directly, MaxKinSteps times.        *)

MaxKinSteps == 3
WheelDeltas == {-Deg(45), 0, Deg(45), Deg(90)}

KinSteps == IF lastCall.op = "add_wheel_delta" THEN lastCall.n ELSE 0

\* add_wheel_delta(left_delta, right_delta)
KinStep ==
    /\ KinSteps < MaxKinSteps
    /\ \E l \in WheelDeltas, r \in WheelDeltas :
        /\ pose' = [pose EXCEPT ![1] = AddWheelDelta(@, l, r)]
        /\ lastCall' = [op |-> "add_wheel_delta", n |-> KinSteps + 1,
                        left |-> l, right |-> r, before |-> pose[1]]
    /\ UNCHANGED <<motors, schedVars, mphase, mops, mret, raceVars>>

SpecKinematics == InitSched /\ [][KinStep]_vars

\* left_delta * pi * wheel_diameter / 360 in micrometres, taken on twice the
\* delta and halved, which rounds as s does
StraightS(delta) ==
    TruncDiv(TruncDiv(CentiDeg(2 * delta) * Pi4, 360) * WheelDiameter10, 2 * AngScale)

\* C20: add_wheel_delta with left_delta = right_delta leaves the heading as
\* it was and moves the robot by (cos(heading) s, sin(heading) s), with
\* s = left_delta * pi * wheel_diameter / 360.
C20_StraightLine ==
    (lastCall.op = "add_wheel_delta" /\ lastCall.left = lastCall.right) =>
        LET b == lastCall.before
            s == StraightS(lastCall.left)
        IN  /\ pose[1].heading = b.heading
            /\ pose[1].x = b.x + TruncDiv(Cos(b.heading) * s, AngScale)
            /\ pose[1].y = b.y + TruncDiv(Sin(b.heading) * s, AngScale)

\* a straight step after a turn: both coordinates move
C20_Witness ==
    /\ lastCall.op = "add_wheel_delta"
    /\ lastCall.left = lastCall.right
    /\ lastCall.left # 0
    /\ lastCall.before.heading # 0
    /\ pose[1].x # lastCall.before.x
    /\ pose[1].y # lastCall.before.y

\* (right_delta - left_delta) * pi * wheel_diameter / 360 / wheels_distance, in
\* angle units
TurnK(left_delta, right_delta) ==
    TruncDiv(TruncDiv(CentiDeg(right_delta - left_delta) * Pi4, 360) * WheelDiameter10,
             wheels_distance * 1000)

\* C21: add_wheel_delta with left_delta = -right_delta leaves x and y as they
\* were and adds k = (right_delta - left_delta) * pi * wheel_diameter / 360 /
\* wheels_distance to the heading.
C21_PureRotation ==
    (lastCall.op = "add_wheel_delta" /\ lastCall.left = -lastCall.right) =>
        /\ pose[1].x = lastCall.before.x
        /\ pose[1].y = lastCall.before.y
        /\ pose[1].heading = lastCall.before.heading + TurnK(lastCall.left, lastCall.right)

\* a turn on the spot, away from the origin
C21_Witness ==
    /\ lastCall.op = "add_wheel_delta"
    /\ lastCall.left = -lastCall.right
    /\ lastCall.right # 0
    /\ lastCall.before.x # 0
    /\ lastCall.before.y # 0
    /\ pose[1].heading # lastCall.before.heading

(***************************************************************************)
(* One arc driven in one call and in several: robot 2 receives             *)
(* add_wheel_delta(L, R) once, robot 1 receives add_wheel_delta(L/N, R/N)  *)
(* N times, both from the pose an earlier call left them in.               *)
(***************************************************************************)
MaxParts == 4
\* the smallest difference of two wheel deltas that gives k # 0: 0.03 degree
NearStep == 3 * (DegUnit \div 100)
ArcDeltas == {-Deg(45), 0, Deg(45), Deg(90), Deg(90) + NearStep}
StartDeltas == {0, Deg(45), Deg(90)}

ArcStart ==
    /\ lastCall.op = "none"
    /\ \E l0 \in StartDeltas, r0 \in StartDeltas, l \in ArcDeltas, r \in ArcDeltas,
          parts \in 2 .. MaxParts :
        /\ l # r
        /\ l % parts = 0
        /\ r % parts = 0
        /\ pose' = [b \in BotIds |-> AddWheelDelta(pose[b], l0, r0)]
        /\ lastCall' = [op |-> "arc", left |-> l, right |-> r, parts |-> parts,
                        n |-> 0, whole |-> FALSE]
    /\ UNCHANGED <<motors, schedVars, mphase, mops, mret, raceVars>>

\* robot 2: the arc in one call
ArcWhole ==
    /\ lastCall.op = "arc"
    /\ ~lastCall.whole
    /\ pose' = [pose EXCEPT ![2] = AddWheelDelta(@, lastCall.left, lastCall.right)]
    /\ lastCall' = [lastCall EXCEPT !.whole = TRUE]
    /\ UNCHANGED <<motors, schedVars, mphase, mops, mret, raceVars>>

\* robot 1: one of the N calls
ArcPart ==
    /\ lastCall.op = "arc"
    /\ lastCall.whole
    /\ lastCall.n < lastCall.parts
    /\ pose' = [pose EXCEPT ![1] = AddWheelDelta(@, lastCall.left \div lastCall.parts,
                                                  lastCall.right \div lastCall.parts)]
    /\ lastCall' = [lastCall EXCEPT !.n = @ + 1]
    /\ UNCHANGED <<motors, schedVars, mphase, mops, mret, raceVars>>

NextArc == ArcStart \/ ArcWhole \/ ArcPart

SpecArc == InitSched /\ [][NextArc]_vars

ArcDone == lastCall.op = "arc" /\ lastCall.whole /\ lastCall.n = lastCall.parts

ArcGapX == Abs(pose[1].x - pose[2].x)
ArcGapY == Abs(pose[1].y - pose[2].y)
ArcGapHeading == Abs(pose[1].heading - pose[2].heading)

\* what the fixed-point arithmetic can lose over one arc: micrometres of
\* position, and one angle unit of heading for each call
ArcTolerance == 50

\* C22: add_wheel_delta(L / N, R / N) applied N times, L # R, ends at the pose
\* that add_wheel_delta(L, R) applied once ends at, x, y and heading, up to the
\* resolution of the arithmetic.
C22_ArcExact ==
    ArcDone =>
        /\ ArcGapX <= ArcTolerance
        /\ ArcGapY <= ArcTolerance
        /\ ArcGapHeading <= lastCall.parts

-----------------------------------------------------------------------------
(* Claims about update in position mode and about the committed velocity.  *)

\* position mode with |encoder - target| <= 2 degrees
WithinPrecision(m) ==
    /\ m.target # None
    /\ Abs(m.encoder - Val(m.target)) <= Deg(2)

\* C23: in position mode an update that finds |encoder - target| <= 2 returns
\* 0, leaves the encoder where it was and the velocity at 0, and the motor is
\* still within 2 of its target, so that every later update finds the same; a
\* set_limits in between changes neither encoder nor target.
C23_PositionHold ==
    (mret.op = "update" /\ WithinPrecision(mret.before)) =>
        /\ mret.delta = 0
        /\ motors[1]["left"].encoder = mret.before.encoder
        /\ motors[1]["left"].velocity = 0
        /\ WithinPrecision(motors[1]["left"])

\* a later update of a motor that moved to its target and was already at rest
C23_Witness ==
    /\ mphase = "hold"
    /\ mret.op = "update"
    /\ WithinPrecision(mret.before)
    /\ mret.before.limit # 0
    /\ mret.before.encoder # 0
    /\ mret.before.velocity = 0

\* C25: after every update, in speed mode and in position mode and whatever
\* commands came before, the velocity is the desired speed of that update, its
\* magnitude is at most the limit, and the magnitude of the returned delta is
\* at most limit * delta_time.
C25_VelocityWithinLimit ==
    mret.op = "update" =>
        /\ motors[1]["left"].velocity = mret.desired
        /\ Abs(motors[1]["left"].velocity) <= mret.before.limit
        /\ Abs(mret.delta) <= mret.before.limit * mret.arg

\* an update in speed mode whose commanded speed exceeds a non-zero limit
C25_Witness ==
    /\ mret.op = "update"
    /\ mret.before.target = None
    /\ mret.before.limit > 0
    /\ Abs(mret.before.speed) > mret.before.limit
    /\ Abs(motors[1]["left"].velocity) = mret.before.limit
    /\ mret.delta # 0

-----------------------------------------------------------------------------
(* The ticks of mainloop with the robots driven and one deferred action    *)
(* queued, no exception raised.                                            *)

DrivenNext == TickNext \/ UserDrive \/ UserRunOnceOnly

SpecDriven == InitSched /\ [][DrivenNext]_vars

\* the bot.update calls of tick t, in the order they were made
CallsOfTick(t) == SelectSeq(hist.botCalls, LAMBDA c : c.tick = t)

\* the bot.update calls robot b received
CallsOfBot(b) == SelectSeq(hist.botCalls, LAMBDA c : c.bot = b)

\* tick t is past line 49
RobotsDone(t) == t < hist.ticks \/ pc # "bots"

\* the pose of a robot after the first n of these calls, its wheels turning at
\* vl and vr: one add_wheel_delta(vl * dt, vr * dt) for each call
RECURSIVE PoseAfterCalls(_, _, _, _)
PoseAfterCalls(calls, vl, vr, n) ==
    IF n = 0 THEN PoseInit
    ELSE AddWheelDelta(PoseAfterCalls(calls, vl, vr, n - 1),
                       vl * calls[n].dt, vr * calls[n].dt)

\* C24: in every tick after the first, update calls the update of each
\* registered robot once, in registration order, all with one delta_time; each
\* call advances the robot's left motor once, its right motor once and the
\* kinematics once, by the two motors' deltas; a deferred action runs only
\* after all robots of its tick have been updated.
C24_TickUpdatesEveryRobotOnce ==
    /\ CallsOfTick(1) = <<>>
    /\ \A t \in 2 .. hist.ticks :
        LET calls == CallsOfTick(t)
        IN  /\ Len(calls) <= Len(bots)
            /\ RobotsDone(t) => Len(calls) = Len(bots)
            /\ \A i \in 1 .. Len(calls) :
                /\ calls[i].bot = bots[i]
                /\ calls[i].dt = calls[1].dt
    /\ \A i \in 1 .. Len(hist.executed) :
        /\ hist.executed[i].tick >= 2
        /\ Len(CallsOfTick(hist.executed[i].tick)) = Len(bots)
    /\ \A i \in 1 .. Len(bots) :
        LET b == bots[i]
            vl == ClampedSpeed(motors[b]["left"])
            vr == ClampedSpeed(motors[b]["right"])
        IN  /\ motors[b]["left"].encoder = vl * SimTime(b)
            /\ motors[b]["right"].encoder = vr * SimTime(b)
            /\ pose[b] = PoseAfterCalls(CallsOfBot(b), vl, vr, Len(CallsOfBot(b)))

\* the second tick with robots' updates is past its deferred action; robot 1
\* has been driven along a curve
C24_Witness ==
    /\ hist.ticks = 3
    /\ pc = "clear"
    /\ Len(hist.botCalls) = 2 * Len(bots)
    /\ \E i \in 1 .. Len(hist.executed) : hist.executed[i].tick = 3
    /\ motors[1]["left"].encoder # 0
    /\ motors[1]["left"].encoder # motors[1]["right"].encoder
    /\ pose[1].heading # 0
    /\ CallsOfTick(2)[1].dt # CallsOfTick(3)[1].dt
====
